---- MODULE Spec2Model ----
(***************************************************************************)
(* Model of viewflow/lock.py: the three lock strategies NoLock,            *)
(* SelectForUpdateLock and CacheLock.  Every worker makes one call of the  *)
(* context manager lock(flow_class, process_pk) for the same flow and the  *)
(* same process key; the database row, its row lock and the cache entry    *)
(* are the shared resources.                                               *)
(***************************************************************************)
EXTENDS Integers, FiniteSets, TLC

NumWorkers == 2
MaxAttempts == 3

Workers == 1..NumWorkers

\* no owner: the row is not locked / the key is not in the cache
None == 0

Strategies == {"NoLock", "SelectForUpdateLock", "CacheLock"}

\* what the protected work (the body of the with statement) does: it returns
\* or raises.  DatabaseError stands for every exception: it is the one type
\* the code names in an except clause, any other type passes the same
\* statements without meeting one.
WorkResults == {"none", "DatabaseError"}

VARIABLES
    strategy,       \* the flow's lock_impl
    nowait,         \* SelectForUpdateLock.nowait
    attempts,       \* self.attempts
    recordExists,   \* the process row is in the table
    rowLock,        \* worker whose transaction holds the row lock, or None
    cache,          \* worker whose add stored the key now in the cache, or None
    pc,             \* position of each worker inside lock()
    i,              \* loop variable of the for statement
    stored,         \* local variable stored of CacheLock
    txnOpen,        \* the worker is inside a transaction.atomic() block
    exc,            \* exception propagating out of lock(), "none" if none
    workErr,        \* what the protected work raised
    nAttempts,      \* iterations of the for loop started
    nSleeps,        \* calls of time.sleep
    nWork,          \* times the generator yielded to the protected work
    nTxn,           \* transaction.atomic() blocks entered
    expiredHeld,    \* an entry expired before the worker that added it deleted it
    sleep_time,     \* local variable sleep_time while in time.sleep, in ms
    recAbsentSeen   \* the process row has been absent at some time

vars == <<strategy, nowait, attempts, recordExists, rowLock, cache, pc, i,
          stored, txnOpen, exc, workErr, nAttempts, nSleeps, nWork, nTxn,
          expiredHeld, sleep_time, recAbsentSeen>>

shared == <<recordExists, rowLock, cache, expiredHeld, recAbsentSeen>>
config == <<strategy, nowait, attempts>>

----------------------------------------------------------------------------
\* pure pieces of the code; each is preceded by the faulty variants that the
\* properties below are required to tell apart from it

\* range(self.attempts): the loop body runs for idx
\* (variants: one iteration too many, one too few)
rangeLong(idx) == idx <= attempts
rangeShort(idx) == idx < attempts - 1
range(idx) == idx < attempts

\* not (i != self.attempts - 1): no sleep after this failure
\* (variant: compares with self.attempts)
LastAttemptOffByOne(idx) == idx = attempts
LastAttempt(idx) == idx = attempts - 1

\* random.random() in thousandths: the ends of [0, 1)
RandomValues == {0, 999}

\* sleep_time = (((i + 1) * random.random()) + 2 ** i) / 2.5, in ms rounded
\* down, for loop index idx and random value r
\* (variant: 2 * i for 2 ** i)
sleep_time_linear(idx, r) == (((idx + 1) * r + (2 * idx) * 1000) * 2) \div 5
delay(idx, r) == (((idx + 1) * r + (2 ^ idx) * 1000) * 2) \div 5

\* the sum of delay(idx, r) over the random values of S: the mean delay of
\* attempt idx times the number of values
RECURSIVE SumDelay(_, _)
SumDelay(idx, S) ==
    IF S = {} THEN 0
    ELSE LET r == CHOOSE x \in S : TRUE
         IN delay(idx, r) + SumDelay(idx, S \ {r})

\* 2 ** i / 2.5 in ms: the part of the delay that does not depend on the
\* random value
DelayFloor(idx) == ((2 ^ idx) * 1000 * 2) \div 5

\* process.exists(): the row is in the table
\* (variant: no existence check)
process_exists_unchecked == TRUE
process_exists == recordExists

\* cache.add(key, 1, expires): stores only when the key is absent
\* (variants: a set that always stores; the result read negated)
addAlways(c) == TRUE
addInverted(c) == c # None
add(c) == c = None

\* cache.delete(key) in the finally clause: the cache content afterwards
\* (variant: no delete)
deleteSkipped(c) == c
delete(c) == None

\* select_for_update(nowait).exists() of worker w as the database answers it
\* (variant: a plain filter(...).exists() that takes no notice of the lock)
select_for_update_unlocked(w) ==
    IF ~recordExists THEN "empty" ELSE "row"
select_for_update(w) ==
    IF ~recordExists THEN "empty"
    ELSE IF rowLock \in {None, w} THEN "row"
    ELSE IF nowait THEN "DatabaseError"
    ELSE "blocked"

\* the exception the try body raises for a query answer
\* (variant: a missing row raises FlowLockFailed at once)
TryBodyRaisesLockFailed(q) ==
    IF q = "DatabaseError" THEN "DatabaseError"
    ELSE IF q = "empty" THEN "FlowLockFailed"
    ELSE "none"
TryBodyRaises(q) ==
    IF q \in {"empty", "DatabaseError"} THEN "DatabaseError" ELSE "none"

\* statements guarded by `except DatabaseError`: the query, not the yield
\* (variant: the yield inside the try body)
ExceptCoversYield(pos) == pos \in {"select", "work"}
ExceptCovers(pos) == pos = "select"

\* `break` after the yield leaves the for loop
\* (variant: no break)
AfterYieldNoBreak == "loop"
AfterYield == "done"

\* leaving a transaction.atomic() block ends the transaction and its row lock
ReleaseRow(w) == IF rowLock = w THEN None ELSE rowLock

Holding == {"acquired", "work", "exit", "finally"}

----------------------------------------------------------------------------
Init ==
    /\ strategy \in Strategies
    /\ nowait \in BOOLEAN
    /\ attempts \in 0..MaxAttempts
    /\ strategy # "SelectForUpdateLock" => nowait
    /\ strategy = "NoLock" => attempts = 0
    /\ recordExists \in BOOLEAN
    /\ rowLock = None
    /\ cache = None
    /\ pc = [w \in Workers |-> "idle"]
    /\ i = [w \in Workers |-> 0]
    /\ stored = [w \in Workers |-> FALSE]
    /\ txnOpen = [w \in Workers |-> FALSE]
    /\ exc = [w \in Workers |-> "none"]
    /\ workErr = [w \in Workers |-> "none"]
    /\ nAttempts = [w \in Workers |-> 0]
    /\ nSleeps = [w \in Workers |-> 0]
    /\ nWork = [w \in Workers |-> 0]
    /\ nTxn = [w \in Workers |-> 0]
    /\ expiredHeld = FALSE
    /\ sleep_time = [w \in Workers |-> 0]
    /\ recAbsentSeen = ~recordExists

\* with lock(flow_class, process_pk): the generator starts running
Call(w) ==
    /\ pc[w] = "idle"
    /\ pc' = [pc EXCEPT ![w] = IF strategy = "NoLock" THEN "acquired" ELSE "loop"]
    /\ UNCHANGED <<config, shared, i, stored, txnOpen, exc, workErr,
                   nAttempts, nSleeps, sleep_time, nWork, nTxn>>

\* NoLock and CacheLock: with transaction.atomic(): yield
\* (variant: a bare yield, no atomic block)
EnterWithoutAtomic(w) ==
    /\ pc[w] = "acquired"
    /\ nWork' = [nWork EXCEPT ![w] = @ + 1]
    /\ pc' = [pc EXCEPT ![w] = "work"]
    /\ UNCHANGED <<config, shared, i, stored, txnOpen, exc, workErr, nAttempts,
                   nSleeps, sleep_time, nTxn>>
Enter(w) ==
    /\ pc[w] = "acquired"
    /\ txnOpen' = [txnOpen EXCEPT ![w] = TRUE]
    /\ nTxn' = [nTxn EXCEPT ![w] = @ + 1]
    /\ nWork' = [nWork EXCEPT ![w] = @ + 1]
    /\ pc' = [pc EXCEPT ![w] = "work"]
    /\ UNCHANGED <<config, shared, i, stored, exc, workErr, nAttempts,
                   nSleeps, sleep_time>>

----------------------------------------------------------------------------
\* SelectForUpdateLock

\* for i in range(self.attempts): with transaction.atomic():
SfuBegin(w) ==
    /\ strategy = "SelectForUpdateLock"
    /\ pc[w] = "loop"
    /\ range(i[w])
    /\ txnOpen' = [txnOpen EXCEPT ![w] = TRUE]
    /\ nTxn' = [nTxn EXCEPT ![w] = @ + 1]
    /\ nAttempts' = [nAttempts EXCEPT ![w] = @ + 1]
    /\ pc' = [pc EXCEPT ![w] = "select"]
    /\ UNCHANGED <<config, shared, i, stored, exc, workErr, nSleeps, sleep_time, nWork>>

\* the loop ends without a yield: contextmanager raises RuntimeError
SfuNoYield(w) ==
    /\ strategy = "SelectForUpdateLock"
    /\ pc[w] = "loop"
    /\ ~range(i[w])
    /\ exc' = [exc EXCEPT ![w] = "RuntimeError"]
    /\ pc' = [pc EXCEPT ![w] = "done"]
    /\ UNCHANGED <<config, shared, i, stored, txnOpen, workErr, nAttempts,
                   nSleeps, sleep_time, nWork, nTxn>>

\* except DatabaseError: sleep unless this was the last attempt, else
\* raise FlowLockFailed, which leaves the atomic block and rolls it back
HandleDatabaseError(w) ==
    IF ~LastAttempt(i[w])
    THEN /\ pc' = [pc EXCEPT ![w] = "sleep"]
         /\ nSleeps' = [nSleeps EXCEPT ![w] = @ + 1]
         /\ \E r \in RandomValues :
               sleep_time' = [sleep_time EXCEPT ![w] = delay(i[w], r)]
         /\ UNCHANGED <<exc, txnOpen, rowLock>>
    ELSE /\ exc' = [exc EXCEPT ![w] = "FlowLockFailed"]
         /\ txnOpen' = [txnOpen EXCEPT ![w] = FALSE]
         /\ rowLock' = ReleaseRow(w)
         /\ pc' = [pc EXCEPT ![w] = "done"]
         /\ UNCHANGED <<nSleeps, sleep_time>>

\* the query finds the row and locks it: else: yield
SfuSelectOk(w) ==
    /\ strategy = "SelectForUpdateLock"
    /\ pc[w] = "select"
    /\ select_for_update(w) = "row"
    /\ rowLock' = w
    /\ nWork' = [nWork EXCEPT ![w] = @ + 1]
    /\ pc' = [pc EXCEPT ![w] = "work"]
    /\ UNCHANGED <<config, recordExists, cache, expiredHeld, recAbsentSeen,
                   i, stored, txnOpen, exc, workErr, nAttempts, nSleeps, sleep_time,
                   nTxn>>

\* the row is locked by another transaction or is not there
SfuSelectFail(w) ==
    /\ strategy = "SelectForUpdateLock"
    /\ pc[w] = "select"
    /\ LET q == select_for_update(w)
           e == TryBodyRaises(q)
       IN /\ q \in {"empty", "DatabaseError"}
          /\ IF e = "DatabaseError" /\ ExceptCovers("select")
             THEN HandleDatabaseError(w)
             ELSE /\ exc' = [exc EXCEPT ![w] = e]
                  /\ txnOpen' = [txnOpen EXCEPT ![w] = FALSE]
                  /\ rowLock' = ReleaseRow(w)
                  /\ pc' = [pc EXCEPT ![w] = "done"]
                  /\ UNCHANGED <<nSleeps, sleep_time>>
    /\ UNCHANGED <<config, recordExists, cache, expiredHeld, recAbsentSeen,
                   i, stored, workErr, nAttempts, nWork, nTxn>>

\* time.sleep returns; the atomic block of the failed attempt ends
SfuWake(w) ==
    /\ strategy = "SelectForUpdateLock"
    /\ pc[w] = "sleep"
    /\ txnOpen' = [txnOpen EXCEPT ![w] = FALSE]
    /\ rowLock' = ReleaseRow(w)
    /\ i' = [i EXCEPT ![w] = @ + 1]
    /\ pc' = [pc EXCEPT ![w] = "loop"]
    /\ sleep_time' = [sleep_time EXCEPT ![w] = 0]
    /\ UNCHANGED <<config, recordExists, cache, expiredHeld, recAbsentSeen,
                   stored, exc, workErr, nAttempts, nSleeps, nWork, nTxn>>

----------------------------------------------------------------------------
\* CacheLock

\* for i in range(self.attempts): process.exists()
CacheExists(w) ==
    /\ strategy = "CacheLock"
    /\ pc[w] = "loop"
    /\ range(i[w])
    /\ nAttempts' = [nAttempts EXCEPT ![w] = @ + 1]
    /\ IF process_exists
       THEN /\ pc' = [pc EXCEPT ![w] = "add"]
            /\ UNCHANGED <<i, nSleeps, sleep_time>>
       ELSE IF ~LastAttempt(i[w])
            THEN /\ pc' = [pc EXCEPT ![w] = "sleep"]
                 /\ nSleeps' = [nSleeps EXCEPT ![w] = @ + 1]
                 /\ \E r \in RandomValues :
                       sleep_time' = [sleep_time EXCEPT ![w] = delay(i[w], r)]
                 /\ UNCHANGED i
            ELSE /\ pc' = [pc EXCEPT ![w] = "loop"]
                 /\ i' = [i EXCEPT ![w] = @ + 1]
                 /\ UNCHANGED <<nSleeps, sleep_time>>
    /\ UNCHANGED <<config, shared, stored, txnOpen, exc, workErr, nWork, nTxn>>

\* stored = self.cache.add(key, 1, self.expires); if stored: break
CacheAdd(w) ==
    /\ strategy = "CacheLock"
    /\ pc[w] = "add"
    /\ stored' = [stored EXCEPT ![w] = add(cache)]
    /\ IF add(cache)
       THEN /\ cache' = w
            /\ pc' = [pc EXCEPT ![w] = "acquired"]
            /\ UNCHANGED <<i, nSleeps, sleep_time>>
       ELSE /\ UNCHANGED cache
            /\ IF ~LastAttempt(i[w])
               THEN /\ pc' = [pc EXCEPT ![w] = "sleep"]
                    /\ nSleeps' = [nSleeps EXCEPT ![w] = @ + 1]
                    /\ \E r \in RandomValues :
                          sleep_time' = [sleep_time EXCEPT ![w] = delay(i[w], r)]
                    /\ UNCHANGED i
               ELSE /\ pc' = [pc EXCEPT ![w] = "loop"]
                    /\ i' = [i EXCEPT ![w] = @ + 1]
                    /\ UNCHANGED <<nSleeps, sleep_time>>
    /\ UNCHANGED <<config, recordExists, rowLock, expiredHeld, recAbsentSeen,
                   txnOpen, exc, workErr, nAttempts, nWork, nTxn>>

\* time.sleep returns; next iteration
CacheWake(w) ==
    /\ strategy = "CacheLock"
    /\ pc[w] = "sleep"
    /\ i' = [i EXCEPT ![w] = @ + 1]
    /\ pc' = [pc EXCEPT ![w] = "loop"]
    /\ sleep_time' = [sleep_time EXCEPT ![w] = 0]
    /\ UNCHANGED <<config, shared, stored, txnOpen, exc, workErr, nAttempts,
                   nSleeps, nWork, nTxn>>

\* for ... else: raise FlowLockFailed
\* (variant: the loop inside the try, so that the finally clause deletes the
\* key on this path too)
CacheElseInsideTry(w) ==
    /\ strategy = "CacheLock"
    /\ pc[w] = "loop"
    /\ ~range(i[w])
    /\ exc' = [exc EXCEPT ![w] = "FlowLockFailed"]
    /\ cache' = delete(cache)
    /\ pc' = [pc EXCEPT ![w] = "done"]
    /\ UNCHANGED <<config, recordExists, rowLock, expiredHeld, recAbsentSeen, i, stored, txnOpen, workErr, nAttempts,
                   nSleeps, sleep_time, nWork, nTxn>>
CacheElse(w) ==
    /\ strategy = "CacheLock"
    /\ pc[w] = "loop"
    /\ ~range(i[w])
    /\ exc' = [exc EXCEPT ![w] = "FlowLockFailed"]
    /\ pc' = [pc EXCEPT ![w] = "done"]
    /\ UNCHANGED <<config, shared, i, stored, txnOpen, workErr, nAttempts,
                   nSleeps, sleep_time, nWork, nTxn>>

\* finally: self.cache.delete(key)
CacheFinally(w) ==
    /\ strategy = "CacheLock"
    /\ pc[w] = "finally"
    /\ cache' = delete(cache)
    /\ pc' = [pc EXCEPT ![w] = "done"]
    /\ UNCHANGED <<config, recordExists, rowLock, expiredHeld, recAbsentSeen,
                   i, stored, txnOpen, exc, workErr, nAttempts, nSleeps, sleep_time,
                   nWork, nTxn>>

----------------------------------------------------------------------------
\* the protected work and the end of its atomic block

\* the body of the with statement returns (e = "none") or raises e, which
\* the context manager throws into the generator at the yield
Work(w, e) ==
    /\ pc[w] = "work"
    /\ workErr' = [workErr EXCEPT ![w] = e]
    /\ IF strategy = "SelectForUpdateLock" /\ e = "DatabaseError"
          /\ ExceptCovers("work")
       THEN HandleDatabaseError(w)
       ELSE /\ exc' = [exc EXCEPT ![w] = e]
            /\ pc' = [pc EXCEPT ![w] = "exit"]
            /\ UNCHANGED <<txnOpen, rowLock, nSleeps, sleep_time>>
    /\ UNCHANGED <<config, recordExists, cache, expiredHeld, recAbsentSeen,
                   i, stored, nAttempts, nWork, nTxn>>

\* transaction.atomic().__exit__: roll back when an exception passes,
\* commit otherwise; a failing commit raises
AtomicExit(w, commitOk) ==
    /\ pc[w] = "exit"
    /\ exc[w] # "none" => commitOk
    /\ txnOpen' = [txnOpen EXCEPT ![w] = FALSE]
    /\ rowLock' = ReleaseRow(w)
    /\ exc' = [exc EXCEPT ![w] = IF commitOk THEN @ ELSE "CommitError"]
    /\ IF strategy = "CacheLock"
       THEN /\ pc' = [pc EXCEPT ![w] = "finally"]
            /\ UNCHANGED i
       ELSE IF strategy = "SelectForUpdateLock" /\ exc[w] = "none" /\ commitOk
                /\ AfterYield = "loop"
            THEN /\ pc' = [pc EXCEPT ![w] = "loop"]
                 /\ i' = [i EXCEPT ![w] = @ + 1]
            ELSE /\ pc' = [pc EXCEPT ![w] = "done"]
                 /\ UNCHANGED i
    /\ UNCHANGED <<config, recordExists, cache, expiredHeld, recAbsentSeen,
                   stored, workErr, nAttempts, nSleeps, sleep_time, nWork, nTxn>>

----------------------------------------------------------------------------
\* environment

\* the entry's timeout (self.expires) elapses
Expire ==
    /\ cache # None
    /\ expiredHeld' = (expiredHeld \/ pc[cache] \in Holding)
    /\ cache' = None
    /\ UNCHANGED <<config, recordExists, rowLock, recAbsentSeen, pc, i, stored,
                   txnOpen, exc, workErr, nAttempts, nSleeps, sleep_time, nWork, nTxn>>

\* another writer commits the process row
CreateRecord ==
    /\ ~recordExists
    /\ recordExists' = TRUE
    /\ UNCHANGED <<config, rowLock, cache, expiredHeld, recAbsentSeen, pc, i,
                   stored, txnOpen, exc, workErr, nAttempts, nSleeps, sleep_time, nWork,
                   nTxn>>

\* another writer deletes the process row (it needs the row lock)
DeleteRecord ==
    /\ recordExists
    /\ rowLock = None
    /\ recordExists' = FALSE
    /\ recAbsentSeen' = TRUE
    /\ UNCHANGED <<config, rowLock, cache, expiredHeld, pc, i, stored, txnOpen,
                   exc, workErr, nAttempts, nSleeps, sleep_time, nWork, nTxn>>

Next ==
    \/ \E w \in Workers : Call(w)
    \/ \E w \in Workers : Enter(w)
    \/ \E w \in Workers : SfuBegin(w)
    \/ \E w \in Workers : SfuNoYield(w)
    \/ \E w \in Workers : SfuSelectOk(w)
    \/ \E w \in Workers : SfuSelectFail(w)
    \/ \E w \in Workers : SfuWake(w)
    \/ \E w \in Workers : CacheExists(w)
    \/ \E w \in Workers : CacheAdd(w)
    \/ \E w \in Workers : CacheWake(w)
    \/ \E w \in Workers : CacheElse(w)
    \/ \E w \in Workers : CacheFinally(w)
    \/ \E w \in Workers : \E e \in WorkResults : Work(w, e)
    \/ \E w \in Workers : \E commitOk \in BOOLEAN : AtomicExit(w, commitOk)
    \/ Expire
    \/ CreateRecord
    \/ DeleteRecord

Spec == Init /\ [][Next]_vars

----------------------------------------------------------------------------
\* a worker dying inside lock()

\* the worker process dies: nothing of lock() runs any more, so a stored key
\* stays in the cache; the database ends the dead connection's transaction
Crash(w) ==
    /\ pc[w] \notin {"idle", "done", "crashed"}
    /\ pc' = [pc EXCEPT ![w] = "crashed"]
    /\ txnOpen' = [txnOpen EXCEPT ![w] = FALSE]
    /\ rowLock' = ReleaseRow(w)
    /\ sleep_time' = [sleep_time EXCEPT ![w] = 0]
    /\ UNCHANGED <<config, recordExists, cache, expiredHeld, recAbsentSeen, i, stored, exc, workErr, nAttempts, nSleeps,
                   nWork, nTxn>>

NextCrash ==
    \/ Next
    \/ \E w \in Workers : Crash(w)

SpecCrash == Init /\ [][NextCrash]_vars

----------------------------------------------------------------------------
TypeOK ==
    /\ strategy \in Strategies
    /\ nowait \in BOOLEAN
    /\ attempts \in 0..MaxAttempts
    /\ recordExists \in BOOLEAN
    /\ rowLock \in Workers \cup {None}
    /\ cache \in Workers \cup {None}
    /\ pc \in [Workers -> {"idle", "loop", "select", "sleep", "add",
                           "acquired", "work", "exit", "finally", "done",
                           "crashed"}]
    /\ i \in [Workers -> 0..MaxAttempts]
    /\ stored \in [Workers -> BOOLEAN]
    /\ txnOpen \in [Workers -> BOOLEAN]
    /\ exc \in [Workers -> {"none", "DatabaseError", "CommitError",
                            "FlowLockFailed", "RuntimeError"}]
    /\ workErr \in [Workers -> WorkResults]
    /\ sleep_time \in [Workers -> Nat]

----------------------------------------------------------------------------
\* vocabulary of the properties

InWork == {w \in Workers : pc[w] = "work"}
Callers == {w \in Workers : pc[w] # "idle"}
AllReturned == Callers # {} /\ \A w \in Callers : pc[w] = "done"
Retrying == strategy = "CacheLock" \/ (strategy = "SelectForUpdateLock" /\ nowait)

\* C1 as claimed: with CacheLock at most one worker is inside its protected
\* work, whatever the interleaving of attempts, work, release and expiry.
C1_MutexDespiteExpiry ==
    strategy = "CacheLock" => Cardinality(InWork) <= 1

\* C1 amended: with CacheLock at most one worker is inside its protected
\* work as long as no entry has expired before the worker that added it
\* deleted it.
C1_MutexWithoutExpiry ==
    (strategy = "CacheLock" /\ ~expiredHeld) => Cardinality(InWork) <= 1

\* one worker works under its own entry while another was refused by add
C1_Witness ==
    /\ strategy = "CacheLock"
    /\ ~expiredHeld
    /\ ~recAbsentSeen
    /\ \E a, b \in Workers :
          /\ pc[a] = "work" /\ cache = a
          /\ pc[b] = "sleep" /\ nSleeps[b] >= 1

\* C2: with SelectForUpdateLock at most one worker is inside its protected
\* work, and a worker in its protected work (or leaving it, its atomic block
\* not yet ended) holds the row lock inside an open transaction.
C2_RowLockMutex ==
    strategy = "SelectForUpdateLock" =>
        /\ Cardinality(InWork) <= 1
        /\ \A w \in Workers :
              pc[w] \in {"work", "exit"} => rowLock = w /\ txnOpen[w]

\* one worker works under the row lock while another was refused by it
C2_Witness ==
    /\ strategy = "SelectForUpdateLock"
    /\ ~recAbsentSeen
    /\ \E a, b \in Workers :
          /\ pc[a] = "work" /\ rowLock = a
          /\ pc[b] = "sleep" /\ nSleeps[b] >= 1

\* C3: when lock() has exited, on whichever path, the worker's cache entry
\* is not in the cache, it holds no row lock and none of its atomic blocks
\* is open.
C3_ReleasedOnExit ==
    \A w \in Workers :
        pc[w] = "done" => ~txnOpen[w] /\ rowLock # w /\ cache # w

\* CacheLock: one holder left after its work raised, another after its
\* commit failed
C3_Witness ==
    /\ strategy = "CacheLock"
    /\ \E a, b \in Workers :
          /\ pc[a] = "done" /\ stored[a] /\ exc[a] = "DatabaseError"
          /\ pc[b] = "done" /\ stored[b] /\ exc[b] = "CommitError"

\* C4: an error raised by the protected work is the exception that leaves
\* lock(): the work ran once, the worker is on the exit path (no sleep, no
\* further attempt), the exception is unchanged, and when lock() has exited
\* the transaction is closed and the lock released.
C4_WorkErrorPropagates ==
    \A w \in Workers :
        workErr[w] # "none" =>
            /\ nWork[w] = 1
            /\ pc[w] \in {"exit", "finally", "done"}
            /\ exc[w] = workErr[w]
            /\ pc[w] = "done" => ~txnOpen[w] /\ rowLock # w /\ cache # w

\* SelectForUpdateLock: the work raised DatabaseError on an attempt that was
\* not the last one, and DatabaseError left lock()
C4_Witness ==
    /\ strategy = "SelectForUpdateLock"
    /\ \E w \in Workers :
          /\ pc[w] = "done"
          /\ workErr[w] = "DatabaseError" /\ exc[w] = "DatabaseError"
          /\ i[w] < attempts - 1

\* C5: SelectForUpdateLock with attempts = N >= 1: a call whose attempts all
\* fail makes exactly N attempts, sleeps N-1 times (after each failure but
\* the last), raises FlowLockFailed and never runs the protected work.
C5_RowLockExhausted ==
    (strategy = "SelectForUpdateLock" /\ attempts >= 1) =>
        \A w \in Workers :
            /\ pc[w] = "select" => nAttempts[w] = i[w] + 1 /\ nSleeps[w] = i[w]
            /\ pc[w] = "sleep" => nSleeps[w] = i[w] + 1 /\ i[w] < attempts - 1
            /\ (pc[w] = "done" /\ nWork[w] = 0) =>
                  /\ exc[w] = "FlowLockFailed"
                  /\ nAttempts[w] = attempts
                  /\ nSleeps[w] = attempts - 1
            /\ exc[w] = "FlowLockFailed" => nWork[w] = 0

\* three attempts, each refused by another worker's row lock
C5_Witness ==
    /\ strategy = "SelectForUpdateLock"
    /\ nowait
    /\ attempts = 3
    /\ ~recAbsentSeen
    /\ \E w \in Workers :
          /\ pc[w] = "done" /\ exc[w] = "FlowLockFailed"
          /\ nAttempts[w] = 3 /\ nSleeps[w] = 2 /\ nWork[w] = 0

\* C6: SelectForUpdateLock: a call that enters the protected work on attempt
\* k has slept k-1 times; after the work it makes no further attempt and
\* does not raise FlowLockFailed; a call that raises FlowLockFailed has used
\* all its attempts, whether they failed on a missing or on a locked row.
C6_RowLockSucceedsOnAttemptK ==
    strategy = "SelectForUpdateLock" =>
        \A w \in Workers :
            /\ pc[w] = "work" =>
                  /\ i[w] < attempts
                  /\ nAttempts[w] = i[w] + 1
                  /\ nSleeps[w] = i[w]
            /\ nWork[w] >= 1 =>
                  /\ pc[w] \in {"work", "exit", "done"}
                  /\ nAttempts[w] = nSleeps[w] + 1
                  /\ exc[w] # "FlowLockFailed"
            /\ exc[w] = "FlowLockFailed" => nAttempts[w] = attempts

\* a lone caller (so no contention): the row was missing on attempts 1 and
\* 2, the third attempt locked it, the work returned
C6_Witness ==
    /\ strategy = "SelectForUpdateLock"
    /\ nowait
    /\ attempts = 3
    /\ \E w \in Workers :
          /\ pc[w] = "done" /\ exc[w] = "none"
          /\ nWork[w] = 1 /\ nAttempts[w] = 3 /\ nSleeps[w] = 2
          /\ \A v \in Workers \ {w} : pc[v] = "idle"

\* C7: CacheLock with attempts = N >= 1: a call none of whose attempts
\* stores the key makes exactly N attempts, sleeps N-1 times, raises
\* FlowLockFailed, enters no atomic block and never runs the protected work.
C7_CacheExhausted ==
    (strategy = "CacheLock" /\ attempts >= 1) =>
        \A w \in Workers :
            /\ pc[w] = "add" => nAttempts[w] = i[w] + 1 /\ nSleeps[w] = i[w]
            /\ pc[w] = "sleep" => nSleeps[w] = i[w] + 1 /\ i[w] < attempts - 1
            /\ (pc[w] = "done" /\ ~stored[w]) => exc[w] = "FlowLockFailed"
            /\ exc[w] = "FlowLockFailed" =>
                  /\ ~stored[w]
                  /\ nAttempts[w] = attempts
                  /\ nSleeps[w] = attempts - 1
                  /\ nTxn[w] = 0
                  /\ nWork[w] = 0

\* attempts = 2, the key is in the cache at both attempts: one sleep, then
\* FlowLockFailed
C7_Witness ==
    /\ strategy = "CacheLock"
    /\ attempts = 2
    /\ ~recAbsentSeen
    /\ \E w \in Workers :
          /\ pc[w] = "done" /\ exc[w] = "FlowLockFailed"
          /\ nAttempts[w] = 2 /\ nSleeps[w] = 1
          /\ cache \notin {None, w}

\* C8 as claimed: of the CacheLock calls that overlap (one was refused while
\* the other held the key), with the row present and no expiry, at most one
\* observes a successful add.
C8_OnlyOneEverStores ==
    (/\ strategy = "CacheLock"
     /\ attempts >= 1
     /\ ~recAbsentSeen
     /\ ~expiredHeld
     /\ \E w \in Workers : nSleeps[w] >= 1) =>
        Cardinality({w \in Workers : stored[w]}) <= 1

\* C8 amended: CacheLock calls never hold a stored key at the same time
\* unless an entry expired under its holder, and when the row stays present
\* at least one of the calls stores the key.
C8_OneHolderAtATime ==
    (strategy = "CacheLock" /\ attempts >= 1) =>
        /\ ~expiredHeld =>
              Cardinality({w \in Workers : stored[w] /\ pc[w] \in Holding}) <= 1
        /\ (~recAbsentSeen /\ AllReturned) => \E w \in Callers : stored[w]

\* two overlapping calls both stored the key, one after the other released
C8_Witness ==
    /\ strategy = "CacheLock"
    /\ ~recAbsentSeen
    /\ ~expiredHeld
    /\ \E a, b \in Workers :
          /\ a # b
          /\ pc[a] = "done" /\ stored[a] /\ nSleeps[a] = 0
          /\ pc[b] \in Holding /\ stored[b] /\ nSleeps[b] >= 1 /\ cache = b

\* C9: for every strategy the protected work is started at most once per
\* call and only with the acquisition done (atomic block open; row lock
\* held; key stored); once started the call makes no further attempt; a
\* call that raises FlowLockFailed never started it.
C9_WorkAtMostOnce ==
    \A w \in Workers :
        /\ nWork[w] <= 1
        /\ nWork[w] = 1 => pc[w] \in {"work", "exit", "finally", "done"}
        /\ pc[w] = "work" =>
              /\ txnOpen[w]
              /\ strategy = "SelectForUpdateLock" => rowLock = w
              /\ strategy = "CacheLock" => stored[w]
        /\ exc[w] = "FlowLockFailed" => nWork[w] = 0

\* SelectForUpdateLock: the work returned on the first of several permitted
\* attempts and the call is over
C9_Witness ==
    /\ strategy = "SelectForUpdateLock"
    /\ attempts >= 2
    /\ \E w \in Workers :
          /\ pc[w] = "done" /\ exc[w] = "none"
          /\ nWork[w] = 1 /\ i[w] = 0

\* C10: retrying strategies, attempts >= 1, the row present throughout, no
\* lock held at the start: when all callers have left lock(), at least one
\* of them has entered its protected work (they did not all raise
\* FlowLockFailed).
C10_SomeContenderWorks ==
    (Retrying /\ attempts >= 1 /\ ~recAbsentSeen /\ AllReturned) =>
        /\ \E w \in Callers : nWork[w] = 1
        /\ ~(\A w \in Callers : exc[w] = "FlowLockFailed")

\* SelectForUpdateLock(nowait=True): every worker called, one was refused on
\* all attempts, another ran its work
C10_Witness ==
    /\ strategy = "SelectForUpdateLock"
    /\ nowait
    /\ ~recAbsentSeen
    /\ \A w \in Workers : pc[w] = "done"
    /\ \E a, b \in Workers :
          /\ exc[a] = "FlowLockFailed"
          /\ nWork[b] = 1

\* C11 as claimed: CacheLock: the entry of a worker that died between its
\* add and its delete leaves the cache only when its timeout elapses (the
\* one step that changes the cache and moves no worker), and as long as it
\* is there the add of every other worker is refused.
C11_CrashedEntryLastsUntilExpiry ==
    [][\A c \in Workers :
          (strategy = "CacheLock" /\ pc[c] = "crashed" /\ cache = c) =>
              /\ cache' # c => pc' = pc
              /\ \A w \in Workers :
                    (pc[w] = "add" /\ pc'[w] # "add") => ~stored'[w]]_vars

\* C12: NoLock: a call stores nothing in the cache, takes no row lock, makes
\* no attempt, never sleeps and never raises FlowLockFailed; all it does is
\* one atomic block, open while the protected work runs.
C12_NoLockOnlyOpensScope ==
    strategy = "NoLock" =>
        /\ cache = None
        /\ rowLock = None
        /\ \A w \in Workers :
              /\ ~stored[w]
              /\ nAttempts[w] = 0
              /\ nSleeps[w] = 0
              /\ exc[w] \notin {"FlowLockFailed", "RuntimeError"}
              /\ nTxn[w] = nWork[w]
              /\ nTxn[w] <= 1
              /\ txnOpen[w] <=> pc[w] \in {"work", "exit"}

\* NoLock: two workers are inside their protected work at the same time
C12_Witness ==
    /\ strategy = "NoLock"
    /\ \E a, b \in Workers :
          /\ a # b
          /\ pc[a] = "work" /\ txnOpen[a]
          /\ pc[b] = "work" /\ txnOpen[b]

\* C13 as claimed: CacheLock: the delete of a worker's release removes only
\* the entry that this worker added, never the entry of another worker.
C13_ReleaseDeletesOwnEntryOnly ==
    [][\A w \in Workers :
          (pc[w] = "finally" /\ pc'[w] = "done") =>
              (cache = w \/ cache' = cache)]_vars

\* C14 as claimed: SelectForUpdateLock: a worker is never in its backoff
\* sleep while an atomic block that it opened is still open.
C14_NoSleepInsideTransaction ==
    strategy = "SelectForUpdateLock" =>
        \A w \in Workers : pc[w] = "sleep" => ~txnOpen[w]

\* C15 as claimed: CacheLock: the atomic block is open only after the key
\* was stored and before the worker's delete, and the key stored by a worker
\* is not deleted while that worker's atomic block is open (it leaves the
\* cache then only by expiring, the one step that moves no worker).
C15_KeyNotDeletedWhileScopeOpen ==
    [][\A w \in Workers :
          (strategy = "CacheLock" /\ txnOpen[w]) =>
              /\ stored[w]
              /\ pc[w] \in {"work", "exit"}
              /\ (cache = w /\ cache' # w) => pc' = pc]_vars

\* C16: CacheLock: no step of a call that has not stored the key changes the
\* cache, such a call ends only by raising FlowLockFailed, and a call that
\* raises FlowLockFailed has not stored the key.
C16_FailedCallLeavesCache ==
    [][\A w \in Workers :
          strategy = "CacheLock" =>
              /\ (pc'[w] # pc[w] /\ ~stored'[w]) =>
                    /\ cache' = cache
                    /\ pc'[w] = "done" => exc'[w] = "FlowLockFailed"
              /\ exc'[w] = "FlowLockFailed" => ~stored'[w]]_vars

\* a call has ended in FlowLockFailed and the holder's entry is still there
C16_Witness ==
    /\ strategy = "CacheLock"
    /\ \E w, h \in Workers :
          /\ pc[w] = "done" /\ exc[w] = "FlowLockFailed"
          /\ pc[h] = "work" /\ cache = h

\* C17: CacheLock: a worker gets to cache.add only from an existence check
\* that found the row, and the add then stores the key whenever the key is
\* absent, whether or not the row is still there.
C17_CheckThenInsert ==
    [][\A w \in Workers :
          strategy = "CacheLock" =>
              /\ (pc[w] # "add" /\ pc'[w] = "add") => recordExists
              /\ (pc[w] = "add" /\ pc'[w] # "add" /\ cache = None) =>
                    /\ stored'[w]
                    /\ cache' = w
                    /\ pc'[w] = "acquired"]_vars

\* a worker runs its protected work under its own entry, on its first
\* attempt, for a row that is no longer in the table
C17_Witness ==
    /\ strategy = "CacheLock"
    /\ ~recordExists
    /\ \E w \in Workers :
          /\ pc[w] = "work" /\ stored[w] /\ cache = w
          /\ nAttempts[w] = 1

\* C18 as claimed: both retrying strategies, every attempts value including
\* 0: a call that has ended without obtaining the lock has raised
\* FlowLockFailed.
C18_ExhaustedRaisesLockFailed ==
    strategy \in {"SelectForUpdateLock", "CacheLock"} =>
        \A w \in Workers :
            (pc[w] = "done" /\ nWork[w] = 0) => exc[w] = "FlowLockFailed"

\* C19: the delay a worker sleeps after failed attempt i is non-negative and
\* at least 2^i/2.5 s; after the first failure it is at least 0.4 s and less
\* than 0.8 s; the mean delay of attempt i+1 exceeds that of attempt i.
C19_Backoff ==
    \A w \in Workers :
        pc[w] = "sleep" =>
            /\ sleep_time[w] >= 0
            /\ sleep_time[w] >= DelayFloor(i[w])
            /\ i[w] = 0 => (400 <= sleep_time[w] /\ sleep_time[w] < 800)
            /\ SumDelay(i[w] + 1, RandomValues) > SumDelay(i[w], RandomValues)

\* a worker sleeps after its second failure with the largest random value
C19_Witness ==
    \E w \in Workers :
        /\ pc[w] = "sleep"
        /\ i[w] = 1
        /\ sleep_time[w] = 1599

====
